---------------------------- MODULE Spec2Model ----------------------------
(***************************************************************************)
(* Model of the Backblaze drive-statistics parser.                         *)
(*                                                                         *)
(*   ParseRawStats      src/unnamed/part_001, lines 411-464 (work queue,   *)
(*                      worker threads, join, sequential reduction)        *)
(*   ReadRawStats       src/backblaze.cpp, lines 529-565 (fold of one file)*)
(*   MergeParsedStats   src/backblaze.cpp, lines 635-664 (reduction step)  *)
(*                                                                         *)
(* Capacities are counted in units of 10^6 bytes so that the 40 GB and     *)
(* 40 TB limits fit the model checker's integers.  An optional value is a  *)
(* sequence of length 0 (absent) or 1 (present).  An identifier cell is a  *)
(* sequence of one-character strings.  A directory entry's path is its     *)
(* position in the traversal, 0 standing for the empty path.               *)
(***************************************************************************)
EXTENDS Integers, Sequences, FiniteSets, TLC

VARIABLES
  thread_count,   \* std::thread::hardware_concurrency()
  dir,            \* the entries the directory iterator yields, in order
  it,             \* position of the shared iterator (Len(dir)+1 = end)
  it_mutex,       \* owner of it_mutex, NoThread when free
  pc,             \* position of every worker thread
  csv_path,       \* local csv_path of a running get_next_file_path call
  file_path,      \* local file_path of every worker
  dc_stats,       \* per-worker stores
  main_pc,        \* position of the thread running ParseRawStats
  main_idx,       \* loop index of the spawn / join / merge loop
  result,         \* the accumulator of the reduction
  returned,       \* history: values returned by get_next_file_path
  outcome,        \* history: per path, how each ReadRawStats on it ended
  algA, algB,     \* two stores built by folding records
  algLog,         \* the records folded into algA, in order, and the number
                  \* of records folded into algB
  algOut,         \* the merge of algB into algA and of algA into algB
  algC,           \* a third store, for the merges of three stores
  algDc,          \* the failure-date lists and max_failure of algA, algB, algC
  algTree,        \* the merges of three stores, step by step
  run             \* main: its arguments, its position, its exit code and
                  \* whether WriteParsedStats has written the output

vars == <<thread_count, dir, it, it_mutex, pc, csv_path, file_path, dc_stats,
          main_pc, main_idx, result, returned, outcome,
          algA, algB, algLog, algOut, algC, algDc, algTree, run>>

pipeVars == <<thread_count, dir, it, it_mutex, pc, csv_path, file_path,
              dc_stats, main_pc, main_idx, result, returned, outcome, run>>

algVars == <<algA, algB, algLog, algOut, algC, algDc, algTree>>

-----------------------------------------------------------------------------
(* Bounds of the model *)

MaxThreads == 2
MaxEntries == 3
MaxFolds == 2
MaxTreeFolds == 1

-----------------------------------------------------------------------------
(* Program constants *)

kFirstYear == 2013
kLastYear == 2023
kMonthPerYear == 12
kDateLength == 3
kCounterCount == (kLastYear - kFirstYear + 1) * kMonthPerYear

\* unit of every capacity in the model: 10^6 bytes
BytesToGBytes(bytes_count) == bytes_count * 1000
BytesToTBytes(bytes_count) == BytesToGBytes(bytes_count) * 1000
kMinCapacityBytes == BytesToGBytes(40)
kMaxCapacityBytes == BytesToTBytes(40)

-----------------------------------------------------------------------------
(* Optional values, cells, dates *)

NullOpt == <<>>
Some(v) == <<v>>
HasValue(o) == o # NullOpt

\* a cell of the table: a number, an empty text, or a text that is no number
Num(n) == [kind |-> "num", v |-> n]
Empty == [kind |-> "empty", v |-> 0]
Bad == [kind |-> "bad", v |-> 0]

\* operator> of a value against an optional (an absent optional is smallest)
ValueGreater(v, o) == ~HasValue(o) \/ v > o[1]

\* operator> of two optionals
OptGreater(a, b) == HasValue(a) /\ (~HasValue(b) \/ a[1] > b[1])

\* operator> of std::chrono::year_month_day
DateGreater(a, b) ==
  \/ a[1] > b[1]
  \/ a[1] = b[1] /\ a[2] > b[2]
  \/ a[1] = b[1] /\ a[2] = b[2] /\ a[3] > b[3]

\* operator> of a date against an optional date
DateGreaterOpt(d, o) == ~HasValue(o) \/ DateGreater(d, o[1])

IsLeap(y) == (y % 4 = 0 /\ y % 100 # 0) \/ y % 400 = 0

LastDay(y, m) ==
  IF m = 2 THEN (IF IsLeap(y) THEN 29 ELSE 28)
  ELSE IF m \in {4, 6, 9, 11} THEN 30 ELSE 31

\* variant: the month is not checked
DateOkAnyMonth(y, m, d) == d \in 1..LastDay(y, m)

\* variant: every month has 31 days
DateOk31(y, m, d) == m \in 1..12 /\ d \in 1..31

\* std::chrono::year_month_day::ok()
DateOk(y, m, d) == m \in 1..12 /\ d \in 1..LastDay(y, m)

Pow2(n) == IF n = 8 THEN 256 ELSE 65536

\* util::ToInt<Ty> for an unsigned Ty of the given width throws unless the
\* text is a number, not negative, that fits the type
ToIntThrows(width, cell) ==
  cell.kind # "num" \/ cell.v < 0 \/ cell.v >= Pow2(width)

\* util::ToInt<uint64_t>: every number of the model fits 64 bits
ToInt64Throws(cell) == cell.kind # "num" \/ cell.v < 0

\* rapidcsv's conversion of a cell to a signed integer
GetCellThrows(cell) == cell.kind # "num"

-----------------------------------------------------------------------------
(* The stores *)

\* DriveStats::DriveStats(power_on_hour)
NewDriveStats(power_on_hour) ==
  [drive_day |-> [k \in 0..(kCounterCount - 1) |-> 0],
   initial_power_on_hour |-> power_on_hour,
   failure_date |-> NullOpt]

\* a value-initialised ModelStats
NewModelStats == [drives |-> <<>>, capacity_bytes |-> NullOpt]

\* an empty ModelMap
EmptyMap == <<>>

\* map[key]: find or create
FindOrCreate(map, key, fresh) ==
  IF key \in DOMAIN map THEN map ELSE map @@ (key :> fresh)

-----------------------------------------------------------------------------
(* The fold: ReadRawStats *)

RECURSIVE RemoveSpace(_)
\* std::ranges::remove_if(id, isspace) followed by erase
RemoveSpace(id) ==
  IF id = <<>> THEN <<>>
  ELSE IF Head(id) = " " THEN RemoveSpace(Tail(id))
       ELSE <<Head(id)>> \o RemoveSpace(Tail(id))

\* variant: the cell is used as it is
ReadIdRaw(cell) == cell

ReadId(cell) == RemoveSpace(cell)

\* variant: the reading is not checked against the range
ReadCapacityNoRange(raw_capacity) ==
  IF raw_capacity < 0 THEN NullOpt ELSE Some(raw_capacity)

\* the optional ReadCapacity returns for a cell that is a number
ReadCapacity(raw_capacity) ==
  IF raw_capacity < 0 THEN NullOpt
  ELSE IF raw_capacity < kMinCapacityBytes \/ raw_capacity > kMaxCapacityBytes
       THEN NullOpt
       ELSE Some(raw_capacity)

UpdateCapacity(model_stats, new_capacity) ==
  IF ValueGreater(new_capacity, model_stats.capacity_bytes)
  THEN [model_stats EXCEPT !.capacity_bytes = Some(new_capacity)]
  ELSE model_stats

UpdateFailureDate(drive_stats, new_date) ==
  IF DateGreaterOpt(new_date, drive_stats.failure_date)
  THEN [drive_stats EXCEPT !.failure_date = Some(new_date)]
  ELSE drive_stats

\* ReadDate throws: wrong number of parts, a part that is no number of its
\* type, a year outside the range, or a date that is not ok()
ReadDateThrows(date) ==
  \/ Len(date) # kDateLength
  \/ ToIntThrows(16, date[1])
  \/ date[1].v < kFirstYear \/ date[1].v > kLastYear
  \/ ToIntThrows(8, date[2])
  \/ ToIntThrows(8, date[3])
  \/ ~DateOk(date[1].v, date[2].v, date[3].v)

\* the date ReadDate returns when it does not throw
ReadDate(date) == <<date[1].v, date[2].v, date[3].v>>

\* the initializer of a new drive throws (run only when the drive is new)
LazyThrows(smart_9_raw) ==
  smart_9_raw.kind # "empty" /\ ToInt64Throws(smart_9_raw)

\* the value the initializer of a new drive yields
LazyValue(smart_9_raw) ==
  IF smart_9_raw.kind = "empty" THEN NullOpt ELSE Some(smart_9_raw.v)

\* variant: the month is not counted from zero
DayIndexFromOne(date) == (date[1] - kFirstYear) * kMonthPerYear + date[2]

\* index of the counter of a date
DayIndex(date) == (date[1] - kFirstYear) * kMonthPerYear + (date[2] - 1)

\* variant: a drive that has failed is not counted any more
CountDayUntilFailure(drive_stats, date) ==
  IF HasValue(drive_stats.failure_date) THEN drive_stats
  ELSE [drive_stats EXCEPT !.drive_day[DayIndex(date)] = @ + 1]

\* ++drive_stats.drive_day[year_idx * kMonthPerYear + month_idx]
CountDay(drive_stats, date) ==
  [drive_stats EXCEPT !.drive_day[DayIndex(date)] = @ + 1]

\* one iteration of the loop of ReadRawStats: the store after the row and
\* whether the row threw
ReadRow(map, row) ==
  LET model_name == ReadId(row.model)
      m1 == FindOrCreate(map, model_name, NewModelStats)
  IN
  IF GetCellThrows(row.capacity_bytes) THEN [map |-> m1, threw |-> TRUE]
  ELSE
  LET capacity_bytes == ReadCapacity(row.capacity_bytes.v)
      m2 == IF HasValue(capacity_bytes)
            THEN [m1 EXCEPT ![model_name] = UpdateCapacity(@, capacity_bytes[1])]
            ELSE m1
      serial_number == ReadId(row.serial_number)
      known == serial_number \in DOMAIN m2[model_name].drives
  IN
  IF ~known /\ LazyThrows(row.smart_9_raw) THEN [map |-> m2, threw |-> TRUE]
  ELSE
  LET m3 == [m2 EXCEPT ![model_name].drives =
               FindOrCreate(@, serial_number,
                            NewDriveStats(LazyValue(row.smart_9_raw)))]
  IN
  IF ReadDateThrows(row.date) THEN [map |-> m3, threw |-> TRUE]
  ELSE
  LET date == ReadDate(row.date)
      m4 == [m3 EXCEPT ![model_name].drives[serial_number] = CountDay(@, date)]
  IN
  IF GetCellThrows(row.failure) THEN [map |-> m4, threw |-> TRUE]
  ELSE IF row.failure.v # 0
       THEN [map |-> [m4 EXCEPT ![model_name].drives[serial_number] =
                                  UpdateFailureDate(@, date)],
             threw |-> FALSE]
       ELSE [map |-> m4, threw |-> FALSE]

RECURSIVE ReadRowsSkipping(_, _, _)
\* variant: a row that throws is skipped and the loop goes on
ReadRowsSkipping(map, rows, idx) ==
  IF idx > Len(rows) THEN [map |-> map, threw |-> FALSE]
  ELSE LET r == ReadRow(map, rows[idx])
           rest == ReadRowsSkipping(r.map, rows, idx + 1)
       IN [map |-> rest.map, threw |-> r.threw \/ rest.threw]

RECURSIVE ReadRows(_, _, _)
\* the loop of ReadRawStats from row idx on: it ends with the last row or
\* with the first row that throws
ReadRows(map, rows, idx) ==
  IF idx > Len(rows) THEN [map |-> map, threw |-> FALSE]
  ELSE LET r == ReadRow(map, rows[idx])
       IN IF r.threw THEN r ELSE ReadRows(r.map, rows, idx + 1)

\* ReadRawStats: opening an unreadable file throws before any row is read
ReadRawStats(map, file) ==
  IF ~file.readable THEN [map |-> map, threw |-> TRUE]
  ELSE ReadRows(map, file.rows, 1)

-----------------------------------------------------------------------------
(* The reduction step: MergeParsedStats *)

\* variant: a capacity the accumulator has is kept
MergeCapacityKept(capacity_bytes, other_capacity_bytes) ==
  IF HasValue(capacity_bytes) THEN capacity_bytes
  ELSE other_capacity_bytes

\* variant: the other store's capacity replaces the accumulator's
MergeCapacityOfOther(capacity_bytes, other_capacity_bytes) ==
  IF HasValue(other_capacity_bytes) THEN other_capacity_bytes
  ELSE capacity_bytes

\* the capacity of a model after the merge
MergeCapacity(capacity_bytes, other_capacity_bytes) ==
  IF OptGreater(other_capacity_bytes, capacity_bytes)
  THEN other_capacity_bytes
  ELSE capacity_bytes

\* variant: the counters of the other store replace the accumulator's
MergeDriveDayOfOther(drive_day, other_drive_day) ==
  [k \in DOMAIN drive_day |-> other_drive_day[k]]

\* std::ranges::transform(drive_day, other.drive_day, begin(drive_day), plus)
MergeDriveDay(drive_day, other_drive_day) ==
  [k \in DOMAIN drive_day |-> drive_day[k] + other_drive_day[k]]

\* variant: the other store's failure date replaces the accumulator's
MergeFailureDateOverwrite(drive_stats, other_failure_date) ==
  IF HasValue(other_failure_date)
  THEN [drive_stats EXCEPT !.failure_date = other_failure_date]
  ELSE drive_stats

\* the failure date of a drive after the merge
MergeFailureDate(drive_stats, other_failure_date) ==
  IF HasValue(other_failure_date)
  THEN UpdateFailureDate(drive_stats, other_failure_date[1])
  ELSE drive_stats

\* variant: a drive without a power-on hour takes the other store's
MergeDriveFillHour(drives, serial_number, other_drive_stats) ==
  LET d0 == FindOrCreate(drives, serial_number,
                         NewDriveStats(other_drive_stats.initial_power_on_hour))
      d1 == IF HasValue(d0[serial_number].initial_power_on_hour) THEN d0
            ELSE [d0 EXCEPT ![serial_number].initial_power_on_hour =
                              other_drive_stats.initial_power_on_hour]
      d2 == [d1 EXCEPT ![serial_number].drive_day =
                         MergeDriveDay(@, other_drive_stats.drive_day)]
  IN [d2 EXCEPT ![serial_number] =
                  MergeFailureDate(@, other_drive_stats.failure_date)]

\* variant: a drive the merge creates gets no power-on hour
MergeDriveNoHour(drives, serial_number, other_drive_stats) ==
  LET d1 == FindOrCreate(drives, serial_number, NewDriveStats(NullOpt))
      d2 == [d1 EXCEPT ![serial_number].drive_day =
                         MergeDriveDay(@, other_drive_stats.drive_day)]
  IN [d2 EXCEPT ![serial_number] =
                  MergeFailureDate(@, other_drive_stats.failure_date)]

\* the body of the inner loop: other's drive merged into the drive found or
\* created (with other's initial power-on hour) in the accumulator
MergeDrive(drives, serial_number, other_drive_stats) ==
  LET d1 == FindOrCreate(drives, serial_number,
                         NewDriveStats(other_drive_stats.initial_power_on_hour))
      d2 == [d1 EXCEPT ![serial_number].drive_day =
                         MergeDriveDay(@, other_drive_stats.drive_day)]
  IN [d2 EXCEPT ![serial_number] =
                  MergeFailureDate(@, other_drive_stats.failure_date)]

\* the inner loop over other's drives; every serial number occurs once, so
\* the order of the iteration does not show in the result
MergeDrives(drives, other_drives) ==
  [sn \in DOMAIN drives \cup DOMAIN other_drives |->
     IF sn \in DOMAIN other_drives
     THEN MergeDrive(drives, sn, other_drives[sn])[sn]
     ELSE drives[sn]]

\* the body of the outer loop
MergeModel(map, model_name, other_model_stats) ==
  LET m1 == FindOrCreate(map, model_name, NewModelStats)
  IN [capacity_bytes |-> MergeCapacity(m1[model_name].capacity_bytes,
                                       other_model_stats.capacity_bytes),
      drives |-> MergeDrives(m1[model_name].drives, other_model_stats.drives)]

MergeParsedStats(map, other) ==
  [mn \in DOMAIN map \cup DOMAIN other |->
     IF mn \in DOMAIN other THEN MergeModel(map, mn, other[mn]) ELSE map[mn]]

-----------------------------------------------------------------------------
(* DataCenterStats of the latest header: every drive keeps the list of its   *)
(* failure dates and the store keeps max_failure.  The header declares them; *)
(* the fold and the merge that maintain them follow sections 4.3 and 4.4 of  *)
(* the specification.  A drive without a list entry has the empty list.     *)

\* a DataCenterStats without failures
NewDc == [failure_date |-> <<>>, max_failure |-> 0]

\* the failure-date list of a drive
FailureList(dc, key) ==
  IF key \in DOMAIN dc.failure_date THEN dc.failure_date[key] ELSE <<>>

\* variant: the comparison is the wrong way round
UpdateMaxFailureLess(dc, failure_count) ==
  IF failure_count < dc.max_failure
  THEN [dc EXCEPT !.max_failure = failure_count]
  ELSE dc

\* variant: the count is stored without the comparison
UpdateMaxFailureAlways(dc, failure_count) ==
  [dc EXCEPT !.max_failure = failure_count]

\* DataCenterStats::UpdateMaxFailure
UpdateMaxFailure(dc, failure_count) ==
  IF failure_count > dc.max_failure
  THEN [dc EXCEPT !.max_failure = failure_count]
  ELSE dc

RECURSIVE InsertSortedOnce(_, _)
\* variant: a date the list holds is not inserted again
InsertSortedOnce(list, date) ==
  IF list = <<>> THEN <<date>>
  ELSE IF Head(list) = date THEN list
       ELSE IF DateGreater(Head(list), date) THEN <<date>> \o list
            ELSE <<Head(list)>> \o InsertSortedOnce(Tail(list), date)

\* variant: the date is appended to the list
InsertAtEnd(list, date) == Append(list, date)

RECURSIVE InsertSorted(_, _)
\* the list with the date inserted at its sorted position
InsertSorted(list, date) ==
  IF list = <<>> THEN <<date>>
  ELSE IF DateGreater(Head(list), date) THEN <<date>> \o list
       ELSE <<Head(list)>> \o InsertSorted(Tail(list), date)

RECURSIVE MergeSortedUnique(_, _)
\* variant: a date both lists hold is kept once
MergeSortedUnique(list, other) ==
  IF list = <<>> THEN other
  ELSE IF other = <<>> THEN list
  ELSE IF DateGreater(Head(list), Head(other))
       THEN <<Head(other)>> \o MergeSortedUnique(list, Tail(other))
       ELSE IF Head(list) = Head(other)
            THEN <<Head(list)>> \o MergeSortedUnique(Tail(list), Tail(other))
            ELSE <<Head(list)>> \o MergeSortedUnique(Tail(list), other)

RECURSIVE MergeSorted(_, _)
\* the stable two-pointer merge of two sorted lists
MergeSorted(list, other) ==
  IF list = <<>> THEN other
  ELSE IF other = <<>> THEN list
  ELSE IF DateGreater(Head(list), Head(other))
       THEN <<Head(other)>> \o MergeSorted(list, Tail(other))
       ELSE <<Head(list)>> \o MergeSorted(Tail(list), other)

\* the keys of the drive a row is about
DriveKey(row) == <<ReadId(row.model), ReadId(row.serial_number)>>

\* step 6 of the fold: a row that was folded and signals a failure has its
\* date inserted into the list of its drive, and max_failure is updated
\* with the length of that list
FoldDc(dc, map, row) ==
  IF ReadRow(map, row).threw \/ row.failure.v = 0 THEN dc
  ELSE LET key == DriveKey(row)
           list == InsertSorted(FailureList(dc, key), ReadDate(row.date))
       IN UpdateMaxFailure(
            [dc EXCEPT !.failure_date = (key :> list) @@ dc.failure_date],
            Len(list))

RECURSIVE UpdateMaxOver(_, _)
\* max_failure updated with the length of the list of every drive of keys
UpdateMaxOver(dc, keys) ==
  IF keys = {} THEN dc
  ELSE LET key == CHOOSE k \in keys : TRUE
       IN UpdateMaxOver(UpdateMaxFailure(dc, Len(dc.failure_date[key])),
                        keys \ {key})

\* the merge of the lists: for every drive of other the two sorted lists
\* are merged and max_failure is updated with the merged length
MergeDc(dc, other) ==
  LET merged ==
        [key \in DOMAIN dc.failure_date \cup DOMAIN other.failure_date |->
           MergeSorted(FailureList(dc, key), FailureList(other, key))]
  IN UpdateMaxOver([dc EXCEPT !.failure_date = merged],
                   DOMAIN other.failure_date)

-----------------------------------------------------------------------------
(* The inputs the model draws from *)

Date(y, m, d) == <<Num(y), Num(m), Num(d)>>

Row(model, serial_number, capacity_bytes, smart_9_raw, date, failure) ==
  [model |-> model, serial_number |-> serial_number,
   capacity_bytes |-> capacity_bytes, smart_9_raw |-> smart_9_raw,
   date |-> date, failure |-> failure]

RowA == Row(<<"A">>, <<"x">>, Num(4000787), Num(7), Date(2020, 1, 10), Num(1))
RowB == Row(<<" ", "A", " ">>, <<" ", "x", " ">>, Num(8001563), Empty,
            Date(2020, 1, 5), Num(1))
RowC == Row(<<"A">>, <<"x">>, Num(-1), Num(9), Date(2019, 5, 2), Num(0))
RowD == Row(<<"B">>, <<"y">>, Num(39999), Empty, Date(2023, 12, 31), Num(1))
RowMonth13 == Row(<<"A">>, <<"x">>, Num(4000787), Num(7), Date(2019, 13, 1), Num(0))
RowDay32 == Row(<<"A">>, <<"z">>, Num(4000787), Num(7), Date(2019, 5, 32), Num(0))
RowBadFlag == Row(<<"B">>, <<"y">>, Num(4000787), Num(3), Date(2021, 2, 28), Bad)

File(ext, readable, rows) == [ext |-> ext, readable |-> readable, rows |-> rows]

FileOk == File(".csv", TRUE, <<RowA, RowC>>)
FileMonth13 == File(".csv", TRUE, <<RowB, RowMonth13, RowC>>)
FileDay32 == File(".csv", TRUE, <<RowDay32, RowD>>)
FileUnreadable == File(".csv", FALSE, <<>>)
FileTxt == File(".txt", TRUE, <<RowA>>)

\* the directory entries a traversal may yield, in name order
Entries == <<FileTxt, FileMonth13, FileOk, FileDay32, FileUnreadable>>

\* a selection of entries in ascending or in descending order
Monotone(t) ==
  \/ \A j, k \in DOMAIN t : j < k => t[j] < t[k]
  \/ \A j, k \in DOMAIN t : j < k => t[j] > t[k]

\* the traversals: at most MaxEntries different entries, in either order
Traversals ==
  UNION {{[j \in 1..n |-> Entries[t[j]]] :
            t \in {t \in [1..n -> DOMAIN Entries] : Monotone(t)}} :
         n \in 0..MaxEntries}

\* a file whose second row has a failure cell that is no number
FileBadFlag == File(".csv", TRUE, <<RowA, RowBadFlag, RowD>>)

\* the directory entries of the runs with that file, in name order
FlagEntries == <<FileBadFlag, FileMonth13, FileOk>>

\* the traversals of these entries
FlagTraversals ==
  UNION {{[j \in 1..n |-> FlagEntries[t[j]]] :
            t \in {t \in [1..n -> DOMAIN FlagEntries] : Monotone(t)}} :
         n \in 0..MaxEntries}

\* the records folded when the fold and the merge are applied on their own
Records == {RowA, RowB, RowC, RowD, RowMonth13, RowBadFlag}

\* a record of a model whose name has a blank inside
RowE == Row(<<"A", " ", "B">>, <<" ", "z", " ">>, Num(4000787), Empty,
            Date(2019, 5, 2), Num(1))

\* a record of drive A/x with the given capacity reading
CapRow(raw_capacity) ==
  Row(<<"A">>, <<"x">>, Num(raw_capacity), Num(7), Date(2020, 1, 10), Num(1))

\* capacity readings around the limits of the plausible range
CapacityReadings ==
  {-1, 0, kMinCapacityBytes - 1, kMinCapacityBytes,
   kMaxCapacityBytes, kMaxCapacityBytes + 1}

\* a record of drive A/x of the given day
DateRow(y, m, d) ==
  Row(<<"A">>, <<"x">>, Num(4000787), Num(7), Date(y, m, d), Num(0))

\* dates around the limits of the years, of the months and of the days
DateReadings ==
  {<<2012, 12, 31>>, <<2013, 1, 1>>, <<2023, 12, 31>>, <<2024, 1, 1>>,
   <<2020, 0, 10>>, <<2020, 13, 1>>, <<2020, 2, 29>>, <<2021, 2, 29>>,
   <<2020, 1, 0>>, <<2020, 4, 31>>}

\* the records folded when the dates are tried
DateRecords == {DateRow(d[1], d[2], d[3]) : d \in DateReadings}

\* the records folded when the fold is applied on its own
FoldRecords == Records \cup {RowE} \cup {CapRow(c) : c \in CapacityReadings}

-----------------------------------------------------------------------------
(* ParseRawStats *)

NoThread == 0
NoPath == 0

EXIT_SUCCESS == 0
EXIT_FAILURE == 1

\* main as it stands when it has called ParseRawStats on a directory
RunParsing ==
  [argc |-> 3, output_ext |-> ".csv", input |-> 0, pc |-> "parsing",
   exit_code |-> NullOpt, written |-> FALSE]

\* the workers; worker i runs the thread the code creates with idx = i - 1
Workers == 1..thread_count

\* file_path.extension() == ".csv"
IsCsv(entry) == entry.ext = ".csv"

\* variant: the loop does not stop at the first match
LoopCondToEnd(i) == it <= Len(dir)

\* it != DirIt{} && csv_path.empty()
LoopCond(i) == it <= Len(dir) /\ csv_path[i] = NoPath

\* variant: the iterator is not guarded by the mutex
CanLockUnguarded(i) == TRUE

\* std::scoped_lock lock{it_mutex} can be taken
CanLock(i) == it_mutex = NoThread

\* variant: every worker folds into the first store
StoreOfFirst(i) == 1

\* the store worker i folds into: dc_stats[idx]
StoreOf(i) == i

\* variant: no handler, the exception ends the worker
AfterReadUncaught(threw) == IF threw THEN "done" ELSE "call"

\* where the worker goes after ReadRawStats returned or threw: the handler
\* logs the exception and the for (;;) loop goes on
AfterRead(threw) == "call"

\* variant: the workers are not joined before the reduction
JoinedAtOnce(i) == TRUE

\* variant: the lock is still held after the call
ReleasedNever(i) == i

\* the owner of it_mutex once the scoped_lock is destroyed
Released(i) == NoThread

\* worker.join() returns
Joined(i) == pc[i] = "done"

PipeInit ==
  /\ thread_count \in 0..MaxThreads
  /\ dir \in Traversals
  /\ it = 1
  /\ it_mutex = NoThread
  /\ pc = [i \in Workers |-> "unborn"]
  /\ csv_path = [i \in Workers |-> NoPath]
  /\ file_path = [i \in Workers |-> NoPath]
  /\ dc_stats = [i \in Workers |-> EmptyMap]
  /\ main_pc = "spawn"
  /\ main_idx = 1
  /\ result = EmptyMap
  /\ returned = <<>>
  /\ outcome = [p \in DOMAIN dir |-> <<>>]
  /\ run = RunParsing

\* a store with its failure-date lists and max_failure
Stats(map, dc) == [map |-> map, dc |-> dc]

EmptyStats == Stats(EmptyMap, NewDc)

\* the merge of the lists and max_failure next to the merge of the models
MergeStats(stats, other) ==
  Stats(MergeParsedStats(stats.map, other.map), MergeDc(stats.dc, other.dc))

\* no merge has been made
NoTree ==
  [step |-> 0, ab |-> EmptyStats, left |-> EmptyStats, bc |-> EmptyStats,
   right |-> EmptyStats, swapped |-> EmptyStats, seq |-> EmptyStats,
   ae |-> EmptyStats, ea |-> EmptyStats]

\* no merge of three stores has been made
TreeIdle ==
  /\ algC = EmptyMap
  /\ algTree = NoTree

AlgIdle ==
  /\ algA = EmptyMap
  /\ algB = EmptyMap
  /\ algLog = [a |-> <<>>, nb |-> 0]
  /\ algOut = [done |-> FALSE, ab |-> EmptyMap, ba |-> EmptyMap,
               dc_ab |-> NewDc, dc_ba |-> NewDc]
  /\ algDc = [a |-> NewDc, b |-> NewDc, c |-> NewDc]
  /\ TreeIdle

Init == PipeInit /\ AlgIdle

\* workers[idx] = std::thread{...}
Spawn ==
  /\ main_pc = "spawn" /\ main_idx <= thread_count
  /\ pc' = [pc EXCEPT ![main_idx] = "call"]
  /\ main_idx' = main_idx + 1
  /\ UNCHANGED <<algVars, run>>
  /\ UNCHANGED <<thread_count, dir, it, it_mutex, csv_path, file_path,
                 dc_stats, main_pc, result, returned, outcome>>

SpawnEnd ==
  /\ main_pc = "spawn" /\ main_idx > thread_count
  /\ main_pc' = "join" /\ main_idx' = 1
  /\ UNCHANGED <<algVars, run>>
  /\ UNCHANGED <<thread_count, dir, it, it_mutex, pc, csv_path, file_path,
                 dc_stats, result, returned, outcome>>

\* worker.join()
Join ==
  /\ main_pc = "join" /\ main_idx <= thread_count
  /\ Joined(main_idx)
  /\ main_idx' = main_idx + 1
  /\ UNCHANGED <<algVars, run>>
  /\ UNCHANGED <<thread_count, dir, it, it_mutex, pc, csv_path, file_path,
                 dc_stats, main_pc, result, returned, outcome>>

\* the join loop ends; bb::DataCenterStats result
JoinEnd ==
  /\ main_pc = "join" /\ main_idx > thread_count
  /\ main_pc' = "merge" /\ main_idx' = 1
  /\ result' = EmptyMap
  /\ UNCHANGED <<algVars, run>>
  /\ UNCHANGED <<thread_count, dir, it, it_mutex, pc, csv_path, file_path,
                 dc_stats, returned, outcome>>

\* MergeParsedStats(result, stats)
Merge ==
  /\ main_pc = "merge" /\ main_idx <= thread_count
  /\ result' = MergeParsedStats(result, dc_stats[main_idx])
  /\ main_idx' = main_idx + 1
  /\ UNCHANGED <<algVars, run>>
  /\ UNCHANGED <<thread_count, dir, it, it_mutex, pc, csv_path, file_path,
                 dc_stats, main_pc, returned, outcome>>

\* return result
MergeEnd ==
  /\ main_pc = "merge" /\ main_idx > thread_count
  /\ main_pc' = "done"
  /\ UNCHANGED <<algVars, run>>
  /\ UNCHANGED <<thread_count, dir, it, it_mutex, pc, csv_path, file_path,
                 dc_stats, main_idx, result, returned, outcome>>

\* get_next_file_path: the lock is taken, csv_path starts empty
Lock(i) ==
  /\ pc[i] = "call"
  /\ CanLock(i)
  /\ it_mutex' = i
  /\ csv_path' = [csv_path EXCEPT ![i] = NoPath]
  /\ pc' = [pc EXCEPT ![i] = "loop"]
  /\ UNCHANGED <<algVars, run>>
  /\ UNCHANGED <<thread_count, dir, it, file_path, dc_stats, main_pc,
                 main_idx, result, returned, outcome>>

\* the body of the loop: the entry under the iterator is looked at
LoopBody(i) ==
  /\ pc[i] = "loop"
  /\ LoopCond(i)
  /\ csv_path' = [csv_path EXCEPT ![i] = IF IsCsv(dir[it]) THEN it ELSE @]
  /\ pc' = [pc EXCEPT ![i] = "inc"]
  /\ UNCHANGED <<algVars, run>>
  /\ UNCHANGED <<thread_count, dir, it, it_mutex, file_path, dc_stats,
                 main_pc, main_idx, result, returned, outcome>>

\* ++it
LoopInc(i) ==
  /\ pc[i] = "inc"
  /\ it' = it + 1
  /\ pc' = [pc EXCEPT ![i] = "loop"]
  /\ UNCHANGED <<algVars, run>>
  /\ UNCHANGED <<thread_count, dir, it_mutex, csv_path, file_path, dc_stats,
                 main_pc, main_idx, result, returned, outcome>>

\* the loop ends, csv_path is returned and the lock released; the worker
\* breaks out of its loop on an empty path
Return(i) ==
  /\ pc[i] = "loop"
  /\ ~LoopCond(i)
  /\ it_mutex' = Released(i)
  /\ file_path' = [file_path EXCEPT ![i] = csv_path[i]]
  /\ returned' = Append(returned, csv_path[i])
  /\ pc' = [pc EXCEPT ![i] = IF csv_path[i] = NoPath THEN "done" ELSE "read"]
  /\ UNCHANGED <<algVars, run>>
  /\ UNCHANGED <<thread_count, dir, it, csv_path, dc_stats, main_pc,
                 main_idx, result, outcome>>

\* ReadRawStats(dc_stats[idx], file_path), with the handler around it
Read(i) ==
  /\ pc[i] = "read"
  /\ LET r == ReadRawStats(dc_stats[StoreOf(i)], dir[file_path[i]])
     IN /\ dc_stats' = [dc_stats EXCEPT ![StoreOf(i)] = r.map]
        /\ outcome' = [outcome EXCEPT ![file_path[i]] =
                         Append(@, IF r.threw THEN "threw" ELSE "ok")]
        /\ pc' = [pc EXCEPT ![i] = AfterRead(r.threw)]
  /\ UNCHANGED <<algVars, run>>
  /\ UNCHANGED <<thread_count, dir, it, it_mutex, csv_path, file_path,
                 main_pc, main_idx, result, returned>>

Worker(i) ==
  /\ i \in Workers
  /\ (Lock(i) \/ LoopBody(i) \/ LoopInc(i) \/ Return(i) \/ Read(i))

Main == Spawn \/ SpawnEnd \/ Join \/ JoinEnd \/ Merge \/ MergeEnd

Next ==
  \/ Spawn \/ SpawnEnd \/ Join \/ JoinEnd \/ Merge \/ MergeEnd
  \/ \E i \in Workers : Lock(i)
  \/ \E i \in Workers : LoopBody(i)
  \/ \E i \in Workers : LoopInc(i)
  \/ \E i \in Workers : Return(i)
  \/ \E i \in Workers : Read(i)

Spec == Init /\ [][Next]_vars

\* the scheduler does not stop while some thread can take a step
FairSpec ==
  /\ Spec
  /\ WF_vars(Next)

\* ParseRawStats on a directory that holds the file with the failure cell
\* that is no number
FlagInit ==
  /\ thread_count \in 0..MaxThreads
  /\ dir \in FlagTraversals
  /\ it = 1
  /\ it_mutex = NoThread
  /\ pc = [i \in Workers |-> "unborn"]
  /\ csv_path = [i \in Workers |-> NoPath]
  /\ file_path = [i \in Workers |-> NoPath]
  /\ dc_stats = [i \in Workers |-> EmptyMap]
  /\ main_pc = "spawn"
  /\ main_idx = 1
  /\ result = EmptyMap
  /\ returned = <<>>
  /\ outcome = [p \in DOMAIN dir |-> <<>>]
  /\ run = RunParsing
  /\ AlgIdle

SpecFlag == FlagInit /\ [][Next]_vars

-----------------------------------------------------------------------------
(* main: the checks of the arguments, the parse of a directory or of a single *)
(* file, the export.  run.input is 0 for a directory and the number of the   *)
(* entry for a single file.                                                  *)

\* variant: the extension of the output is not checked
OutputOkAny(output_ext) == TRUE

\* output.extension() == ".csv"
OutputOk(output_ext) == output_ext = ".csv"

MainInit ==
  /\ thread_count \in 0..MaxThreads
  /\ dir \in Traversals
  /\ it = 1
  /\ it_mutex = NoThread
  /\ pc = [i \in Workers |-> "unborn"]
  /\ csv_path = [i \in Workers |-> NoPath]
  /\ file_path = [i \in Workers |-> NoPath]
  /\ dc_stats = [i \in Workers |-> EmptyMap]
  /\ main_pc = "idle"
  /\ main_idx = 1
  /\ result = EmptyMap
  /\ returned = <<>>
  /\ outcome = [p \in DOMAIN dir |-> <<>>]
  /\ \E argc \in {2, 3, 4}, output_ext \in {".csv", ".txt"},
        input \in 0..Len(Entries) :
       run = [argc |-> argc, output_ext |-> output_ext, input |-> input,
              pc |-> "args", exit_code |-> NullOpt, written |-> FALSE]
  /\ AlgIdle

\* the exception reaches the handler of main: return EXIT_FAILURE
Failed == [run EXCEPT !.pc = "exit", !.exit_code = Some(EXIT_FAILURE)]

\* if (argc != 3) throw
CheckArgs ==
  /\ run.pc = "args"
  /\ run' = IF run.argc # 3 THEN Failed ELSE [run EXCEPT !.pc = "output"]
  /\ UNCHANGED algVars
  /\ UNCHANGED <<thread_count, dir, it, it_mutex, pc, csv_path, file_path,
                 dc_stats, main_pc, main_idx, result, returned, outcome>>

\* if (output.extension() != ".csv") throw
CheckOutput ==
  /\ run.pc = "output"
  /\ run' = IF ~OutputOk(run.output_ext) THEN Failed
            ELSE [run EXCEPT !.pc = "input"]
  /\ UNCHANGED algVars
  /\ UNCHANGED <<thread_count, dir, it, it_mutex, pc, csv_path, file_path,
                 dc_stats, main_pc, main_idx, result, returned, outcome>>

\* is_directory(input): ParseRawStats is called
ParseDirectory ==
  /\ run.pc = "input" /\ run.input = 0
  /\ run' = [run EXCEPT !.pc = "parsing"]
  /\ main_pc' = "spawn"
  /\ UNCHANGED algVars
  /\ UNCHANGED <<thread_count, dir, it, it_mutex, pc, csv_path, file_path,
                 dc_stats, main_idx, result, returned, outcome>>

\* ParseRawStats has returned its result
ParseEnd ==
  /\ run.pc = "parsing" /\ main_pc = "done"
  /\ run' = [run EXCEPT !.pc = "write"]
  /\ UNCHANGED algVars
  /\ UNCHANGED <<thread_count, dir, it, it_mutex, pc, csv_path, file_path,
                 dc_stats, main_pc, main_idx, result, returned, outcome>>

\* the input is no directory: ReadRawStats(map, input), whose exception
\* reaches the handler of main
ReadFile ==
  /\ run.pc = "input" /\ run.input # 0
  /\ LET r == ReadRawStats(EmptyMap, Entries[run.input])
     IN /\ run' = IF r.threw THEN Failed ELSE [run EXCEPT !.pc = "write"]
        /\ result' = IF r.threw THEN result ELSE r.map
  /\ UNCHANGED algVars
  /\ UNCHANGED <<thread_count, dir, it, it_mutex, pc, csv_path, file_path,
                 dc_stats, main_pc, main_idx, returned, outcome>>

\* WriteParsedStats(model_map, output) returns, or throws when the output
\* cannot be written; return EXIT_SUCCESS
Write ==
  /\ run.pc = "write"
  /\ \E ok \in BOOLEAN :
       run' = IF ok THEN [run EXCEPT !.pc = "exit", !.written = TRUE,
                                    !.exit_code = Some(EXIT_SUCCESS)]
              ELSE Failed
  /\ UNCHANGED algVars
  /\ UNCHANGED <<thread_count, dir, it, it_mutex, pc, csv_path, file_path,
                 dc_stats, main_pc, main_idx, result, returned, outcome>>

MainNext ==
  \/ CheckArgs \/ CheckOutput \/ ParseDirectory \/ ParseEnd \/ ReadFile
  \/ Write
  \/ Spawn \/ SpawnEnd \/ Join \/ JoinEnd \/ Merge \/ MergeEnd
  \/ \E i \in Workers : Lock(i)
  \/ \E i \in Workers : LoopBody(i)
  \/ \E i \in Workers : LoopInc(i)
  \/ \E i \in Workers : Return(i)
  \/ \E i \in Workers : Read(i)

SpecMain == MainInit /\ [][MainNext]_vars

-----------------------------------------------------------------------------
(* The fold and the merge applied on their own to stores built from Records *)

PipeIdle ==
  /\ thread_count = 0
  /\ dir = <<>>
  /\ it = 1
  /\ it_mutex = NoThread
  /\ pc = <<>>
  /\ csv_path = <<>>
  /\ file_path = <<>>
  /\ dc_stats = <<>>
  /\ main_pc = "spawn"
  /\ main_idx = 1
  /\ result = EmptyMap
  /\ returned = <<>>
  /\ outcome = <<>>
  /\ run = RunParsing

AlgInit == PipeIdle /\ AlgIdle

\* one iteration of the loop of ReadRawStats on the first store
FoldA(r) ==
  /\ ~algOut.done
  /\ Len(algLog.a) < MaxFolds
  /\ algA' = ReadRow(algA, r).map
  /\ algDc' = [algDc EXCEPT !.a = FoldDc(@, algA, r)]
  /\ algLog' = [algLog EXCEPT !.a = Append(@, r)]
  /\ UNCHANGED <<algB, algOut, algC, algTree>>
  /\ UNCHANGED pipeVars

\* one iteration of the loop of ReadRawStats on the second store
FoldB(r) ==
  /\ ~algOut.done
  /\ algLog.nb < MaxFolds
  /\ algB' = ReadRow(algB, r).map
  /\ algDc' = [algDc EXCEPT !.b = FoldDc(@, algB, r)]
  /\ algLog' = [algLog EXCEPT !.nb = @ + 1]
  /\ UNCHANGED <<algA, algOut, algC, algTree>>
  /\ UNCHANGED pipeVars

\* MergeParsedStats in both directions
MergeBoth ==
  /\ ~algOut.done
  /\ algOut' = [done |-> TRUE,
                ab |-> MergeParsedStats(algA, algB),
                ba |-> MergeParsedStats(algB, algA),
                dc_ab |-> MergeDc(algDc.a, algDc.b),
                dc_ba |-> MergeDc(algDc.b, algDc.a)]
  /\ UNCHANGED <<algA, algB, algLog, algC, algDc, algTree>>
  /\ UNCHANGED pipeVars

AlgNext ==
  \/ \E r \in Records : FoldA(r)
  \/ \E r \in Records : FoldB(r)
  \/ MergeBoth

SpecAlg == AlgInit /\ [][AlgNext]_vars

-----------------------------------------------------------------------------
(* The merge applied to three stores: pairwise in both groupings, and as     *)
(* the loop at the end of ParseRawStats applies it                           *)

RECURSIVE StoresUpTo(_)
\* the stores the fold builds from at most n records
StoresUpTo(n) ==
  IF n = 0 THEN {EmptyStats}
  ELSE LET prev == StoresUpTo(n - 1)
       IN prev \cup {Stats(ReadRow(s.map, r).map, FoldDc(s.dc, s.map, r)) :
                       s \in prev, r \in Records}

TreeInit ==
  /\ PipeIdle
  /\ algLog = [a |-> <<>>, nb |-> 0]
  /\ algOut = [done |-> FALSE, ab |-> EmptyMap, ba |-> EmptyMap,
               dc_ab |-> NewDc, dc_ba |-> NewDc]
  /\ \E a, b, c \in StoresUpTo(MaxTreeFolds) :
       /\ algA = a.map /\ algB = b.map /\ algC = c.map
       /\ algDc = [a |-> a.dc, b |-> b.dc, c |-> c.dc]
  /\ algTree = NoTree

StatsA == Stats(algA, algDc.a)
StatsB == Stats(algB, algDc.b)
StatsC == Stats(algC, algDc.c)

\* the step of the merges that comes next
TreeStep(n) ==
  /\ algTree.step = n
  /\ UNCHANGED <<algA, algB, algC, algDc, algLog, algOut>>
  /\ UNCHANGED pipeVars

\* B merged into A
MergeAB ==
  /\ TreeStep(0)
  /\ algTree' = [algTree EXCEPT !.step = 1, !.ab = MergeStats(StatsA, StatsB)]

\* C merged into the merge of A and B
MergeLeft ==
  /\ TreeStep(1)
  /\ algTree' = [algTree EXCEPT !.step = 2,
                                !.left = MergeStats(algTree.ab, StatsC)]

\* C merged into B
MergeBC ==
  /\ TreeStep(2)
  /\ algTree' = [algTree EXCEPT !.step = 3, !.bc = MergeStats(StatsB, StatsC)]

\* the merge of B and C merged into A
MergeRight ==
  /\ TreeStep(3)
  /\ algTree' = [algTree EXCEPT !.step = 4,
                                !.right = MergeStats(StatsA, algTree.bc)]

\* A merged into the merge of B and C
MergeSwapped ==
  /\ TreeStep(4)
  /\ algTree' = [algTree EXCEPT !.step = 5,
                                !.swapped = MergeStats(algTree.bc, StatsA)]

\* the loop of ParseRawStats: A, B, C merged in turn into an empty result
MergeSeq ==
  /\ TreeStep(5)
  /\ algTree' = [algTree EXCEPT
                   !.step = 6,
                   !.seq = MergeStats(MergeStats(MergeStats(EmptyStats, StatsA),
                                                 StatsB),
                                      StatsC)]

\* an empty store merged into A, and A merged into an empty store
MergeEmpty ==
  /\ TreeStep(6)
  /\ algTree' = [algTree EXCEPT !.step = 7,
                                !.ae = MergeStats(StatsA, EmptyStats),
                                !.ea = MergeStats(EmptyStats, StatsA)]

TreeNext ==
  \/ MergeAB \/ MergeLeft \/ MergeBC \/ MergeRight \/ MergeSwapped
  \/ MergeSeq \/ MergeEmpty

SpecTree == TreeInit /\ [][TreeNext]_vars

-----------------------------------------------------------------------------
(* One iteration of the loop of ReadRawStats applied to a store the fold     *)
(* has built; algB keeps the store the iterations started from               *)

FoldInit ==
  /\ PipeIdle
  /\ TreeIdle
  /\ algLog = [a |-> <<>>, nb |-> 0]
  /\ algOut = [done |-> FALSE, ab |-> EmptyMap, ba |-> EmptyMap,
               dc_ab |-> NewDc, dc_ba |-> NewDc]
  /\ \E s \in StoresUpTo(MaxTreeFolds) :
       /\ algA = s.map /\ algB = s.map
       /\ algDc = [a |-> s.dc, b |-> s.dc, c |-> NewDc]

\* one iteration of the loop of ReadRawStats
FoldRecord(r) ==
  /\ Len(algLog.a) < MaxFolds
  /\ algA' = ReadRow(algA, r).map
  /\ algDc' = [algDc EXCEPT !.a = FoldDc(@, algA, r)]
  /\ algLog' = [algLog EXCEPT !.a = Append(@, r)]
  /\ UNCHANGED <<algB, algOut, algC, algTree>>
  /\ UNCHANGED pipeVars

FoldNext == \E r \in FoldRecords : FoldRecord(r)

SpecFold == FoldInit /\ [][FoldNext]_vars

\* the iterations of the loop over records with dates around the limits
FoldDateNext == \E r \in DateRecords : FoldRecord(r)

SpecDate == FoldInit /\ [][FoldDateNext]_vars

-----------------------------------------------------------------------------
(* Claims about the work queue and the two phases *)

\* the non-empty values get_next_file_path returned, in order
Delivered == SelectSeq(returned, LAMBDA p : p # NoPath)

RECURSIVE CsvUpTo(_)
\* the paths with the .csv extension among the first n entries, in order
CsvUpTo(n) ==
  IF n = 0 THEN <<>>
  ELSE IF dir[n].ext = ".csv" THEN Append(CsvUpTo(n - 1), n) ELSE CsvUpTo(n - 1)

AllDone == \A i \in Workers : pc[i] = "done"

\* C1: no path is returned by two calls of get_next_file_path, no two
\* workers hold the same path, and no path is read twice
C1_NoPathTwice ==
  /\ \A j, k \in DOMAIN returned :
       j # k /\ returned[j] # NoPath => returned[j] # returned[k]
  /\ \A i, j \in Workers :
       i # j /\ pc[i] = "read" /\ pc[j] = "read" => file_path[i] # file_path[j]
  /\ \A p \in DOMAIN outcome : Len(outcome[p]) <= 1

\* two workers hold a path each at the same time
C1_Witness ==
  /\ \E i, j \in Workers : i # j /\ pc[i] = "read" /\ pc[j] = "read"
  /\ Len(Delivered) >= 2

\* the entries the loop of a running call has looked at
Examined == IF \E i \in Workers : pc[i] = "inc" THEN it ELSE it - 1

\* the path a running call has found and not yet returned
Pending ==
  IF \E i \in Workers : pc[i] \in {"loop", "inc"} /\ csv_path[i] # NoPath
  THEN <<csv_path[CHOOSE i \in Workers :
                    pc[i] \in {"loop", "inc"} /\ csv_path[i] # NoPath]>>
  ELSE <<>>

\* C2: the non-empty values returned are, in order, exactly the .csv
\* entries the traversal has passed (none skipped, no other entry returned),
\* and after an empty value every value returned is empty
C2_DeliveredInOrder ==
  /\ Delivered \o Pending = CsvUpTo(Examined)
  /\ \A j, k \in DOMAIN returned :
       j < k /\ returned[j] = NoPath => returned[k] = NoPath
  /\ (thread_count > 0 /\ AllDone) => Delivered = CsvUpTo(Len(dir))

\* an entry without the extension was passed over, two paths were returned
\* in traversal order, and then two calls returned empty
C2_Witness ==
  /\ Len(dir) = 3 /\ dir[1].ext # ".csv"
  /\ returned = <<2, 3, NoPath, NoPath>>

\* C3: a store changes only in a step of its own worker, the step in which
\* that worker leaves ReadRawStats, and that step changes no other store
\* and not the accumulator
C3_OwnStoreOnly ==
  [][\A i \in Workers :
       dc_stats'[i] # dc_stats[i] =>
         /\ pc[i] = "read" /\ pc'[i] # "read"
         /\ \A j \in Workers \ {i} : dc_stats'[j] = dc_stats[j]
         /\ result' = result]_vars

\* two workers have each folded a file into their stores
C3_Witness ==
  \E i, j \in Workers :
    i # j /\ dc_stats[i] # EmptyMap /\ dc_stats[j] # EmptyMap

\* C4: the accumulator changes only in the merge loop, every worker has
\* terminated by then, and each change is the merge of the one store the
\* loop index names
C4_MergeAfterJoin ==
  /\ [](main_pc \in {"merge", "done"} => AllDone)
  /\ [](result # EmptyMap => main_pc \in {"merge", "done"})
  /\ [][result' # result =>
          /\ main_pc = "merge" /\ AllDone
          /\ main_idx' = main_idx + 1
          /\ dc_stats' = dc_stats
          /\ result' = MergeParsedStats(result, dc_stats[main_idx])]_vars

\* the accumulator holds the merge of two stores that are not empty
C4_Witness ==
  /\ main_pc = "done"
  /\ thread_count = 2
  /\ dc_stats[1] # EmptyMap /\ dc_stats[2] # EmptyMap
  /\ result # dc_stats[1] /\ result # dc_stats[2]

-----------------------------------------------------------------------------
(* Claims about termination and errors *)

Finished == main_pc = "done" /\ AllDone

\* C5: under fair scheduling every worker terminates and the run reaches
\* the end of the reduction, whatever files fail
C5_Terminates == <>[]Finished

\* the run is over and every file of a full traversal raised an error
C5_Witness ==
  /\ Finished /\ thread_count = MaxThreads
  /\ Len(dir) = MaxEntries
  /\ \A p \in DOMAIN dir : outcome[p] = <<"threw">>

\* worker i leaves ReadRawStats in this step
LeavesRead(i) == pc[i] = "read" /\ pc'[i] # "read"

\* the file worker i is reading
FileOf(i) == dir[file_path[i]]

\* C6: a worker whose file raised an error goes on to call
\* get_next_file_path again, and at the end of the run every .csv entry of
\* the traversal has been read once
C6_ErrorIsAbsorbed ==
  /\ [][\A i \in Workers :
          LeavesRead(i) /\ outcome'[file_path[i]] = <<"threw">>
            => pc'[i] = "call" /\ main_pc' = main_pc]_vars
  /\ [](thread_count > 0 /\ Finished =>
          \A p \in DOMAIN dir : IsCsv(dir[p]) => Len(outcome[p]) = 1)

\* a single worker read a file that raised an error and then read the
\* files after it
C6_Witness ==
  /\ Finished /\ thread_count = 1
  /\ Len(dir) = 3
  /\ outcome[1] = <<"threw">> /\ outcome[2] = <<"ok">> /\ outcome[3] = <<"threw">>

\* a date cell ReadDate accepts
ValidDateCell(d) ==
  /\ Len(d) = 3
  /\ \A n \in 1..3 : d[n].kind = "num"
  /\ d[1].v \in kFirstYear..kLastYear
  /\ d[2].v \in 1..12
  /\ d[3].v \in 1..LastDay(d[1].v, d[2].v)

\* a row that raises an error whatever the store holds
Raises(row) ==
  \/ row.capacity_bytes.kind # "num"
  \/ ~ValidDateCell(row.date)
  \/ row.failure.kind # "num"

\* a row that raises no error whatever the store holds
Valid(row) ==
  /\ ~Raises(row)
  /\ row.smart_9_raw.kind = "empty" \/ (row.smart_9_raw.kind = "num" /\ row.smart_9_raw.v >= 0)

\* a row that raises its error after its day was counted
CountedThenRaises(row) ==
  /\ row.capacity_bytes.kind = "num"
  /\ row.smart_9_raw.kind # "bad"
  /\ ValidDateCell(row.date)
  /\ row.failure.kind # "num"

\* the keys of a row
KeyOf(row) == <<RemoveSpace(row.model), RemoveSpace(row.serial_number)>>

\* the counter slot of a row with a valid date
SlotOf(row) == (row.date[1].v - 2013) * 12 + row.date[2].v - 1

\* the date of a row with a valid date
DateOf(row) == <<row.date[1].v, row.date[2].v, row.date[3].v>>

\* the rows of a file are all valid up to its first row that raises
RaisesAt(rows, k) ==
  /\ k \in DOMAIN rows
  /\ Raises(rows[k])
  /\ \A j \in 1..(k - 1) : Valid(rows[j])

\* the drives of a store, as keys
DriveKeys(map) ==
  UNION {{<<mn, sn>> : sn \in DOMAIN map[mn].drives} : mn \in DOMAIN map}

CountAt(map, key, t) ==
  IF key \in DriveKeys(map) THEN map[key[1]].drives[key[2]].drive_day[t] ELSE 0

FailureAt(map, key) ==
  IF key \in DriveKeys(map) THEN map[key[1]].drives[key[2]].failure_date
  ELSE NullOpt

\* the rows among the first n of a file that count a day of the drive in
\* the slot
Counting(rows, n, key, t) ==
  {j \in 1..n : KeyOf(rows[j]) = key /\ SlotOf(rows[j]) = t}

\* the dates of the rows among the first n that report a failure of the drive
Failing(rows, n, key) ==
  {DateOf(rows[j]) : j \in {j \in 1..n : KeyOf(rows[j]) = key /\ rows[j].failure.v # 0}}

\* the latest of a drive's failure date and a set of dates
Latest(o, dates) ==
  LET all == dates \cup {o[n] : n \in DOMAIN o}
  IN IF all = {} THEN NullOpt
     ELSE Some(CHOOSE d \in all : \A e \in all : e = d \/ DateGreater(d, e))

\* C7: when row k of a file raises an error, the store holds afterwards
\* the days and failure dates of rows 1..k-1 on top of what it held (row k
\* adds its own day only if it raised after being counted), nothing of the
\* rows after k, and the worker goes on to the next path
C7_PrefixIsKept ==
  [][\A i \in Workers :
       LeavesRead(i) /\ FileOf(i).readable =>
         \A k \in DOMAIN FileOf(i).rows :
           RaisesAt(FileOf(i).rows, k) =>
             LET rows == FileOf(i).rows
                 old == dc_stats[i]
                 new == dc_stats'[i]
                 own == IF CountedThenRaises(rows[k]) THEN k ELSE k - 1
                 keys == DriveKeys(old) \cup {KeyOf(rows[j]) : j \in 1..k}
             IN /\ pc'[i] = "call"
                /\ outcome'[file_path[i]] = <<"threw">>
                /\ DriveKeys(old) \cup {KeyOf(rows[j]) : j \in 1..(k - 1)}
                     \subseteq DriveKeys(new)
                /\ DriveKeys(new) \subseteq keys
                /\ \A key \in keys :
                     /\ \A t \in 0..(kCounterCount - 1) :
                          CountAt(new, key, t) =
                            CountAt(old, key, t)
                              + Cardinality(Counting(rows, own, key, t))
                     /\ FailureAt(new, key) =
                          Latest(FailureAt(old, key), Failing(rows, k - 1, key))]_vars

\* a worker that already held a drive read the file whose second row
\* raises: the first row was counted on top, the third row was not
C7_Witness ==
  \E i \in Workers :
    /\ pc[i] = "call"
    /\ file_path[i] # NoPath /\ FileOf(i) = FileMonth13
    /\ outcome[file_path[i]] = <<"threw">>
    /\ CountAt(dc_stats[i], <<<<"A">>, <<"x">>>>, 84) = 2
    /\ CountAt(dc_stats[i], <<<<"A">>, <<"x">>>>, 76) = 1

RECURSIVE SumOf(_, _)
\* the sum of f over the finite set D
SumOf(f, D) ==
  IF D = {} THEN 0
  ELSE LET x == CHOOSE x \in D : TRUE IN f[x] + SumOf(f, D \ {x})

RECURSIVE SumRange(_, _, _)
\* the sum of f over lo..hi
SumRange(f, lo, hi) ==
  IF lo > hi THEN 0
  ELSE IF lo = hi THEN f[lo]
  ELSE LET mid == (lo + hi) \div 2
       IN SumRange(f, lo, mid) + SumRange(f, mid + 1, hi)

\* the days counted in a store, over all drives and months
DriveDays(map) ==
  LET keys == DriveKeys(map)
      days == [key \in keys |->
                 SumRange(map[key[1]].drives[key[2]].drive_day,
                          0, kCounterCount - 1)]
  IN SumOf(days, keys)

\* a row with month 13 or day 32
Month13OrDay32(row) ==
  /\ Len(row.date) = 3
  /\ \A n \in 1..3 : row.date[n].kind = "num"
  /\ row.date[2].v = 13 \/ row.date[3].v = 32

\* the first row of the file that raises is row k, a row with month 13 or
\* day 32
RejectedAt(rows, k) == RaisesAt(rows, k) /\ Month13OrDay32(rows[k])

\* C8 as stated: a row with month 13 or day 32 is rejected alone, and the
\* valid rows after it in the file are still folded
C8_RestOfFileFolded ==
  [][\A i \in Workers :
       LeavesRead(i) /\ FileOf(i).readable =>
         \A k \in DOMAIN FileOf(i).rows :
           RejectedAt(FileOf(i).rows, k) =>
             LET rows == FileOf(i).rows
             IN DriveDays(dc_stats'[i]) =
                  DriveDays(dc_stats[i])
                    + Cardinality({j \in DOMAIN rows : Valid(rows[j])})]_vars

\* C8 as amended: a row with month 13 or day 32 raises an error and is not
\* counted; the error ends the file: the rows before it stay folded, no row
\* after it is folded, and the worker goes on with the next path
C8_RejectedEndsFile ==
  [][\A i \in Workers :
       LeavesRead(i) /\ FileOf(i).readable =>
         \A k \in DOMAIN FileOf(i).rows :
           RejectedAt(FileOf(i).rows, k) =>
             /\ outcome'[file_path[i]] = <<"threw">>
             /\ DriveDays(dc_stats'[i]) = DriveDays(dc_stats[i]) + (k - 1)
             /\ \A j \in (k + 1)..Len(FileOf(i).rows) :
                  KeyOf(FileOf(i).rows[j]) \in DriveKeys(dc_stats'[i])
                    => KeyOf(FileOf(i).rows[j]) \in
                         DriveKeys(dc_stats[i])
                           \cup {KeyOf(FileOf(i).rows[n]) : n \in 1..k}
             /\ pc'[i] = "call"]_vars

\* one worker read the file with day 32 in its first row and the file with
\* month 13 in its second row: one day is counted, of five rows
C8_Witness ==
  /\ Finished /\ thread_count = 1
  /\ dir = <<FileDay32, FileMonth13>>
  /\ outcome = <<<<"threw">>, <<"threw">>>>
  /\ DriveDays(result) = 1
  /\ DriveKeys(result) = {<<<<"A">>, <<"z">>>>, <<<<"A">>, <<"x">>>>}

-----------------------------------------------------------------------------
(* Claims about the fold and the merge *)

\* the permutations of 1..n
Perms(n) == {q \in [1..n -> 1..n] : \A j, k \in 1..n : j # k => q[j] # q[k]}

\* the rows are valid records of one drive
OneDrive(rows) ==
  /\ \A j \in DOMAIN rows : Valid(rows[j])
  /\ \A j, k \in DOMAIN rows : KeyOf(rows[j]) = KeyOf(rows[k])

\* C9: valid records of one drive folded into an empty store in any order
\* give every month counter of the drive the same value, the number of the
\* records of that month
C9_FoldOrder ==
  LET rows == algLog.a
  IN (rows # <<>> /\ OneDrive(rows)) =>
       \A q \in Perms(Len(rows)) :
         LET map == ReadRows(EmptyMap, [j \in DOMAIN rows |-> rows[q[j]]], 1).map
             key == KeyOf(rows[1])
         IN \A t \in 0..(kCounterCount - 1) :
              /\ CountAt(map, key, t) = CountAt(algA, key, t)
              /\ CountAt(map, key, t) =
                   Cardinality(Counting(rows, Len(rows), key, t))

\* two records of one drive, of different months, the later one reporting a
\* failure, were folded with the later one first
C9_Witness ==
  /\ algLog.a = <<RowA, RowC>>
  /\ CountAt(algA, KeyOf(RowA), 84) = 1
  /\ CountAt(algA, KeyOf(RowA), 76) = 1

\* the two stores hold the same models with the same capacities, the same
\* drives with the same counters and the same failure dates
SameState(m1, m2) ==
  /\ DOMAIN m1 = DOMAIN m2
  /\ \A mn \in DOMAIN m1 :
       /\ m1[mn].capacity_bytes = m2[mn].capacity_bytes
       /\ DOMAIN m1[mn].drives = DOMAIN m2[mn].drives
       /\ \A sn \in DOMAIN m1[mn].drives :
            /\ m1[mn].drives[sn].drive_day = m2[mn].drives[sn].drive_day
            /\ m1[mn].drives[sn].failure_date = m2[mn].drives[sn].failure_date

\* C10: merging B into A and merging A into B give the same counters, the
\* same capacities and the same failure dates
C10_MergeCommutes == algOut.done => SameState(algOut.ab, algOut.ba)

\* both stores hold the drive, with different failure dates and different
\* capacities of its model; the two merges differ in another field only
C10_Witness ==
  /\ algOut.done
  /\ KeyOf(RowA) \in DriveKeys(algA) \cap DriveKeys(algB)
  /\ HasValue(FailureAt(algA, KeyOf(RowA)))
  /\ HasValue(FailureAt(algB, KeyOf(RowA)))
  /\ FailureAt(algA, KeyOf(RowA)) # FailureAt(algB, KeyOf(RowA))
  /\ HasValue(algA[<<"A">>].capacity_bytes)
  /\ HasValue(algB[<<"A">>].capacity_bytes)
  /\ algA[<<"A">>].capacity_bytes # algB[<<"A">>].capacity_bytes
  /\ algOut.ab # algOut.ba

-----------------------------------------------------------------------------
(* Claims about the merge as an operation on stores *)

\* C11: an empty store merged into A leaves A as it was, and A merged into
\* an empty store gives a store equal to A in every field: models,
\* capacities, drives, counters, initial power-on hours, failure dates and
\* max_failure
C11_MergeIdentity ==
  algTree.step = 7 => algTree.ae = StatsA /\ algTree.ea = StatsA

\* A holds a drive with a power-on hour, a failure date and a capacity, and
\* both merges with the empty store were made
C11_Witness ==
  /\ algTree.step = 7
  /\ <<"A">> \in DOMAIN algA
  /\ HasValue(algA[<<"A">>].capacity_bytes)
  /\ <<"x">> \in DOMAIN algA[<<"A">>].drives
  /\ HasValue(algA[<<"A">>].drives[<<"x">>].initial_power_on_hour)
  /\ HasValue(algA[<<"A">>].drives[<<"x">>].failure_date)
  /\ algDc.a.max_failure = 1

\* two stores with the same counters, capacities, failure dates,
\* failure-date lists and max_failure
SameStats(s1, s2) == SameState(s1.map, s2.map) /\ s1.dc = s2.dc

\* C12: merging three stores as (A+B)+C, as A+(B+C), as (B+C)+A and one by
\* one into an empty result, as the loop of ParseRawStats does, gives the
\* same counters, capacities and failure dates
C12_MergeTree ==
  algTree.step >= 6 =>
    /\ SameStats(algTree.left, algTree.right)
    /\ SameStats(algTree.left, algTree.swapped)
    /\ SameStats(algTree.left, algTree.seq)

\* the three stores hold the same drive with three different records; the
\* merges agree on the fields of the claim and differ in another one
C12_Witness ==
  /\ algTree.step >= 6
  /\ algA = ReadRow(EmptyMap, RowA).map
  /\ algB = ReadRow(EmptyMap, RowB).map
  /\ algC = ReadRow(EmptyMap, RowC).map
  /\ algTree.left.dc.failure_date[DriveKey(RowA)]
       = <<<<2020, 1, 5>>, <<2020, 1, 10>>>>
  /\ algTree.left.map[<<"A">>].capacity_bytes = Some(8001563)
  /\ algTree.left.map # algTree.swapped.map

-----------------------------------------------------------------------------
(* Claims about the final store of a run *)

RECURSIVE ReadAll(_)
\* the store of a single worker that has read the first n entries of the
\* traversal
ReadAll(n) ==
  IF n = 0 THEN EmptyMap
  ELSE IF IsCsv(dir[n]) THEN ReadRawStats(ReadAll(n - 1), dir[n]).map
       ELSE ReadAll(n - 1)

\* the result of the run in which one worker reads every file
OneWorkerResult == MergeParsedStats(EmptyMap, ReadAll(Len(dir)))

\* C13: the final store of a run is the same for every scheduling of the
\* workers and every assignment of files to workers; it is then the store
\* of the run in which one worker reads every file, in every field
C13_SameFinalState ==
  (Finished /\ thread_count > 0) => result = OneWorkerResult

-----------------------------------------------------------------------------
(* Claims about the failure-date lists and max_failure *)

\* the list is in ascending order, equal dates allowed
Sorted(list) ==
  \A j, k \in DOMAIN list : j < k => ~DateGreater(list[j], list[k])

\* every list of the store is in ascending order
AllSorted(dc) == \A key \in DOMAIN dc.failure_date : Sorted(dc.failure_date[key])

\* the stores folded so far and, once made, their two merges
DcStores ==
  {algDc.a, algDc.b} \cup (IF algOut.done THEN {algOut.dc_ab, algOut.dc_ba} ELSE {})

Occurrences(list, date) == Cardinality({j \in DOMAIN list : list[j] = date})

\* the dates of a list
Range(list) == {list[j] : j \in DOMAIN list}

Widest(dc) ==
  IF DOMAIN dc.failure_date = {} THEN 0
  ELSE LET key == CHOOSE k \in DOMAIN dc.failure_date :
                    \A o \in DOMAIN dc.failure_date :
                      Len(dc.failure_date[o]) <= Len(dc.failure_date[k])
       IN Len(dc.failure_date[key])

C17_MaxFailureGrows ==
  [][/\ algDc'.a.max_failure >= algDc.a.max_failure
     /\ algDc'.b.max_failure >= algDc.b.max_failure
     /\ algOut'.done =>
          /\ algOut'.dc_ab.max_failure >= algDc.a.max_failure
          /\ algOut'.dc_ba.max_failure >= algDc.b.max_failure]_vars

\* a store with two failures of one drive was merged with a store with one
\* failure of another drive
C17_Witness ==
  /\ algOut.done
  /\ algDc.a.max_failure = 2
  /\ algDc.b.max_failure = 1
  /\ DriveKey(RowD) \in DOMAIN algDc.b.failure_date
  /\ algOut.dc_ab.max_failure = 2 /\ algOut.dc_ba.max_failure = 2

-----------------------------------------------------------------------------
(* Claims about the fold of one record *)

\* the record folded in this step
Folded == algLog'.a[Len(algLog'.a)]

\* the capacity of a model of a store, absent when the store has no such
\* model
CapacityOf(map, model_name) ==
  IF model_name \in DOMAIN map THEN map[model_name].capacity_bytes ELSE NullOpt

\* the capacity reading of the record is negative, below 40 GB or above
\* 40 TB, in units of 10^6 bytes
Implausible(row) ==
  /\ row.capacity_bytes.kind = "num"
  /\ row.capacity_bytes.v < 40 * 1000 \/ row.capacity_bytes.v > 40 * 1000 * 1000

\* the capacity reading of the record is 40 GB or 40 TB
AtLimit(row) ==
  /\ row.capacity_bytes.kind = "num"
  /\ row.capacity_bytes.v \in {40 * 1000, 40 * 1000 * 1000}

\* the model of the record, without its blanks
ModelOf(row) == SelectSeq(row.model, LAMBDA c : c # " ")

\* C18: the fold of a record with a negative capacity reading, or one below
\* 40 GB or above 40 TB, leaves the capacity of the model as it was, absent
\* if it was absent; a reading of exactly 40 GB or 40 TB is taken: the model
\* then has a capacity that is at least the reading
C18_ImplausibleCapacity ==
  [][Len(algLog'.a) = Len(algLog.a) + 1 =>
       /\ Implausible(Folded) =>
            CapacityOf(algA', ModelOf(Folded)) = CapacityOf(algA, ModelOf(Folded))
       /\ AtLimit(Folded) =>
            /\ HasValue(CapacityOf(algA', ModelOf(Folded)))
            /\ CapacityOf(algA', ModelOf(Folded))[1] >= Folded.capacity_bytes.v
            /\ ~HasValue(CapacityOf(algA, ModelOf(Folded))) =>
                 CapacityOf(algA', ModelOf(Folded)) = Some(Folded.capacity_bytes.v)]_vars

\* a reading of 40 TB was taken by a model without a capacity and a reading
\* above 40 TB was then left aside
C18_Witness ==
  /\ algB = EmptyMap
  /\ algLog.a = <<CapRow(40 * 1000 * 1000), CapRow(40 * 1000 * 1000 + 1)>>
  /\ algA[<<"A">>].capacity_bytes = Some(40 * 1000 * 1000)

RECURSIVE TrimLeft(_)
\* the text without its leading blanks
TrimLeft(text) ==
  IF text # <<>> /\ Head(text) = " " THEN TrimLeft(Tail(text)) ELSE text

\* the text read backwards
Reverse(text) == [j \in 1..Len(text) |-> text[Len(text) + 1 - j]]

\* the text without its leading and trailing blanks
Trim(text) == Reverse(TrimLeft(Reverse(TrimLeft(text))))

\* the text without any blank
Squeeze(text) == SelectSeq(text, LAMBDA c : c # " ")

\* a valid record with the failure flag set and a capacity reading between
\* 40 GB and 40 TB
FailureRecord(row) ==
  /\ Valid(row)
  /\ row.failure.v # 0
  /\ row.capacity_bytes.v >= 40 * 1000 /\ row.capacity_bytes.v <= 40 * 1000 * 1000

\* the store holds one model under the key with the capacity of the row,
\* and one drive under the key with one day counted in the month of the
\* row, no other day, and the date of the row as its failure date
HoldsOnly(model_name, serial_number, row) ==
  /\ DOMAIN algA = {model_name}
  /\ algA[model_name].capacity_bytes = Some(row.capacity_bytes.v)
  /\ DOMAIN algA[model_name].drives = {serial_number}
  /\ \A t \in 0..131 :
       algA[model_name].drives[serial_number].drive_day[t] =
         IF t = SlotOf(row) THEN 1 ELSE 0
  /\ algA[model_name].drives[serial_number].failure_date = Some(DateOf(row))
  /\ DOMAIN algDc.a.failure_date = {<<model_name, serial_number>>}
  /\ algDc.a.failure_date[<<model_name, serial_number>>] = <<DateOf(row)>>

\* two records folded into an empty store whose model names and serial
\* numbers differ only by leading or trailing blanks are held as one drive
\* of one model
SameDriveWhenTrimmedEqual ==
  (/\ algB = EmptyMap /\ Len(algLog.a) = 2
   /\ Valid(algLog.a[1]) /\ Valid(algLog.a[2])
   /\ Trim(algLog.a[1].model) = Trim(algLog.a[2].model)
   /\ Trim(algLog.a[1].serial_number) = Trim(algLog.a[2].serial_number))
  => Cardinality(DriveKeys(algA)) = 1 /\ Cardinality(DOMAIN algA) = 1

\* C19 as stated: a valid record with the failure flag and a plausible
\* capacity folded into an empty store gives one model keyed by the trimmed
\* model name and one drive keyed by the trimmed serial number
C19_TrimmedKeys ==
  /\ (algB = EmptyMap /\ Len(algLog.a) = 1 /\ FailureRecord(algLog.a[1])) =>
       HoldsOnly(Trim(algLog.a[1].model), Trim(algLog.a[1].serial_number),
                 algLog.a[1])
  /\ SameDriveWhenTrimmedEqual

\* C19 as amended: the keys are the model name and the serial number with
\* every blank removed, those inside the name as well
C19_SqueezedKeys ==
  /\ (algB = EmptyMap /\ Len(algLog.a) = 1 /\ FailureRecord(algLog.a[1])) =>
       HoldsOnly(Squeeze(algLog.a[1].model), Squeeze(algLog.a[1].serial_number),
                 algLog.a[1])
  /\ SameDriveWhenTrimmedEqual

\* the record of a model with a blank inside its name was folded into an
\* empty store, which holds it under the name without the blank
C19_Witness ==
  /\ algB = EmptyMap
  /\ algLog.a = <<RowE>>
  /\ DOMAIN algA = {<<"A", "B">>}
  /\ DOMAIN algA[<<"A", "B">>].drives = {<<"z">>}
  /\ algA[<<"A", "B">>].drives[<<"z">>].drive_day[76] = 1

-----------------------------------------------------------------------------
(* Claims about main *)

\* the argument count is wrong or the output path has not the extension
UsageError == run.argc # 3 \/ run.output_ext # ".csv"

\* no path was dispensed, no file was read, no store was touched
NothingIngested ==
  /\ main_pc = "idle"
  /\ it = 1
  /\ returned = <<>>
  /\ \A p \in DOMAIN outcome : outcome[p] = <<>>
  /\ \A i \in Workers : pc[i] = "unborn" /\ dc_stats[i] = EmptyMap
  /\ result = EmptyMap

\* the parse has come to its end: ParseRawStats has joined its workers and
\* merged their stores, or the single file was read without an error
ParseCompleted ==
  IF run.input = 0 THEN main_pc = "done" /\ AllDone
  ELSE /\ ~ReadRawStats(EmptyMap, Entries[run.input]).threw
       /\ result = ReadRawStats(EmptyMap, Entries[run.input]).map

\* C20: with a wrong argument count or an output path without the .csv
\* extension the run goes from the checks to its end with a non-zero exit
\* code, nothing is dispensed or read and no output is written; the exit
\* code is 0 only when the parse and the export have come to their end
C20_UsageErrorIsFatal ==
  /\ UsageError =>
       /\ run.pc \in {"args", "output", "exit"}
       /\ NothingIngested
       /\ ~run.written
       /\ run.pc = "exit" => run.exit_code # Some(0)
  /\ (run.pc = "exit" /\ run.exit_code = Some(0)) =>
       ParseCompleted /\ run.written
  /\ run.pc = "exit" => HasValue(run.exit_code)

\* the run has ended with exit code 1 on an output path without the
\* extension, the input being a directory with files and workers at hand
C20_Witness ==
  /\ run.pc = "exit" /\ run.exit_code = Some(1)
  /\ run.argc = 3 /\ run.output_ext = ".txt" /\ run.input = 0
  /\ thread_count = MaxThreads /\ Len(dir) = MaxEntries
  /\ NothingIngested

-----------------------------------------------------------------------------
(* Claims about the effects of one fold and of one merge *)

\* a fold step: a record was appended to the log
FoldStep == Len(algLog'.a) = Len(algLog.a) + 1

\* the keys of a row without any blank
CanonicalKey(row) == <<Squeeze(row.model), Squeeze(row.serial_number)>>

\* C21: the fold of a valid record adds one to the counter of the slot
\* (year - 2013) * 12 + (month - 1) of the drive the record names, and
\* leaves every other counter of that drive and of every other drive as it
\* was
C21_OneSlotIncremented ==
  [][(FoldStep /\ Valid(Folded)) =>
       /\ CanonicalKey(Folded) \in DriveKeys(algA')
       /\ \A key \in DriveKeys(algA) \cup DriveKeys(algA') :
            \A t \in 0..131 :
              CountAt(algA', key, t) =
                CountAt(algA, key, t)
                  + (IF /\ key = CanonicalKey(Folded)
                        /\ t = (Folded.date[1].v - 2013) * 12
                                 + (Folded.date[2].v - 1)
                     THEN 1 ELSE 0)]_vars

\* a record of January 2020 of drive A/x was folded into a store that held
\* a day of December 2023 of drive B/y
C21_Witness ==
  /\ algB = ReadRow(EmptyMap, RowD).map
  /\ algLog.a = <<RowA>>
  /\ CountAt(algA, <<<<"A">>, <<"x">>>>, 84) = 1
  /\ CountAt(algA, <<<<"B">>, <<"y">>>>, 131) = 1

\* the record of a drive of a store
DriveAt(map, key) == map[key[1]].drives[key[2]]

\* C22: after the merge of a store into another, either way, every counter
\* is the sum of the two counters (zero for a drive a store does not hold),
\* a drive that only the accumulator held is as it was, and every model and
\* every drive of both stores is still there
C22_MergedCounters ==
  algOut.done =>
    \A acc \in {"a", "b"} :
      LET before == IF acc = "a" THEN algA ELSE algB
          other == IF acc = "a" THEN algB ELSE algA
          after == IF acc = "a" THEN algOut.ab ELSE algOut.ba
      IN /\ \A key \in DriveKeys(before) \cup DriveKeys(other) \cup DriveKeys(after) :
              \A t \in 0..131 :
                CountAt(after, key, t) =
                  CountAt(before, key, t) + CountAt(other, key, t)
         /\ \A key \in DriveKeys(before) \ DriveKeys(other) :
              /\ key \in DriveKeys(after)
              /\ DriveAt(after, key) = DriveAt(before, key)
         /\ DOMAIN before \cup DOMAIN other \subseteq DOMAIN after
         /\ DriveKeys(before) \cup DriveKeys(other) \subseteq DriveKeys(after)

\* both stores counted a day of January 2020 of drive A/x and only the
\* first holds drive B/y; the merged store counts two days
C22_Witness ==
  /\ algOut.done
  /\ CountAt(algA, <<<<"A">>, <<"x">>>>, 84) = 1
  /\ CountAt(algB, <<<<"A">>, <<"x">>>>, 84) = 1
  /\ CountAt(algOut.ab, <<<<"A">>, <<"x">>>>, 84) = 2
  /\ <<<<"B">>, <<"y">>>> \in DriveKeys(algA) \ DriveKeys(algB)
  /\ CountAt(algOut.ab, <<<<"B">>, <<"y">>>>, 131) = 1

\* the larger of two capacities, an absent one being smaller than any
\* present one
LargerCapacity(a, b) ==
  IF ~HasValue(a) THEN b
  ELSE IF ~HasValue(b) THEN a
  ELSE IF a[1] >= b[1] THEN a ELSE b

\* a capacity that is not smaller than it was
NotSmaller(after, before) ==
  HasValue(before) => (HasValue(after) /\ after[1] >= before[1])

\* C23: the merge gives every model the larger of the two capacities, an
\* absent capacity being the smallest and absent on both sides staying
\* absent; and no fold and no merge makes the capacity of a model smaller
C23_CapacityIsMaximum ==
  [][/\ \A mn \in DOMAIN algA :
          NotSmaller(CapacityOf(algA', mn), CapacityOf(algA, mn))
     /\ \A mn \in DOMAIN algB :
          NotSmaller(CapacityOf(algB', mn), CapacityOf(algB, mn))
     /\ algOut'.done =>
          \A mn \in DOMAIN algA \cup DOMAIN algB
                      \cup DOMAIN algOut'.ab \cup DOMAIN algOut'.ba :
            /\ CapacityOf(algOut'.ab, mn) =
                 LargerCapacity(CapacityOf(algA, mn), CapacityOf(algB, mn))
            /\ CapacityOf(algOut'.ba, mn) =
                 LargerCapacity(CapacityOf(algB, mn), CapacityOf(algA, mn))
            /\ NotSmaller(CapacityOf(algOut'.ab, mn), CapacityOf(algA, mn))
            /\ NotSmaller(CapacityOf(algOut'.ba, mn), CapacityOf(algB, mn))]_vars

\* model A has 4 TB in the first store and 8 TB in the second, and 8 TB in
\* the merged store whichever store is the accumulator
C23_Witness ==
  /\ algOut.done
  /\ CapacityOf(algA, <<"A">>) = Some(4000787)
  /\ CapacityOf(algB, <<"A">>) = Some(8001563)
  /\ CapacityOf(algOut.ab, <<"A">>) = Some(8001563)
  /\ CapacityOf(algOut.ba, <<"A">>) = Some(8001563)

\* the initial power-on hour of a drive of a store
HourAt(map, key) == DriveAt(map, key).initial_power_on_hour

\* the power-on hour a record carries, absent when its cell is empty
HourOf(row) ==
  IF row.smart_9_raw.kind = "empty" THEN <<>> ELSE <<row.smart_9_raw.v>>

\* C24: a drive gets its initial power-on hour at the step that creates it,
\* from the record that creates it on a fold and from the other store on a
\* merge; a drive a store holds keeps its hour, absent or not, under every
\* later fold and under the merge of any store into it
C24_HourSetOnce ==
  [][/\ \A key \in DriveKeys(algA) :
          key \in DriveKeys(algA') /\ HourAt(algA', key) = HourAt(algA, key)
     /\ \A key \in DriveKeys(algB) :
          key \in DriveKeys(algB') /\ HourAt(algB', key) = HourAt(algB, key)
     /\ FoldStep =>
          \A key \in DriveKeys(algA') \ DriveKeys(algA) :
            HourAt(algA', key) = HourOf(Folded)
     /\ algOut'.done =>
          /\ \A key \in DriveKeys(algA) :
               HourAt(algOut'.ab, key) = HourAt(algA, key)
          /\ \A key \in DriveKeys(algB) \ DriveKeys(algA) :
               HourAt(algOut'.ab, key) = HourAt(algB, key)
          /\ \A key \in DriveKeys(algB) :
               HourAt(algOut'.ba, key) = HourAt(algB, key)
          /\ \A key \in DriveKeys(algA) \ DriveKeys(algB) :
               HourAt(algOut'.ba, key) = HourAt(algA, key)]_vars

\* a record without a power-on hour created drive A/x in the first store, a
\* record with the hour 7 was folded after it, and the store that was merged
\* into it has an hour for the drive: the hour is still absent
C24_Witness ==
  /\ algOut.done
  /\ algLog.a = <<RowB, RowA>>
  /\ HourAt(algA, <<<<"A">>, <<"x">>>>) = <<>>
  /\ <<<<"A">>, <<"x">>>> \in DriveKeys(algB)
  /\ HourAt(algB, <<<<"A">>, <<"x">>>>) # <<>>
  /\ HourAt(algOut.ab, <<<<"A">>, <<"x">>>>) = <<>>

\* the date of the record has three numbers and is no date from 2013 to 2023
InvalidDate(row) ==
  /\ Len(row.date) = 3
  /\ \A n \in 1..3 : row.date[n].kind = "num"
  /\ ~ValidDateCell(row.date)

\* the step changes no counter of any drive
NoCounterChanged ==
  \A key \in DriveKeys(algA) \cup DriveKeys(algA') :
    \A t \in 0..131 : CountAt(algA', key, t) = CountAt(algA, key, t)

\* C25: the fold of a record whose year is outside 2013..2023, whose month
\* is outside 1..12 or whose day is no day of the month raises an error and
\* increments no counter; a fold that increments a counter has a valid date
\* and its slot is one of the 132 slots 0..131 of the array
C25_InvalidDateCountsNothing ==
  [][FoldStep =>
       /\ InvalidDate(Folded) =>
            (ReadRow(algA, Folded).threw /\ NoCounterChanged)
       /\ ~NoCounterChanged =>
            /\ ValidDateCell(Folded.date)
            /\ SlotOf(Folded) \in 0..131
            /\ CountAt(algA', CanonicalKey(Folded), SlotOf(Folded)) =
                 CountAt(algA, CanonicalKey(Folded), SlotOf(Folded)) + 1
       /\ \A key \in DriveKeys(algA') :
            DOMAIN DriveAt(algA', key).drive_day = 0..131]_vars

\* after a day of January 2020 of drive A/x, a record of the drive dated
\* 29 February 2021 was folded: the drive has that one day and no other
C25_Witness ==
  /\ algB = ReadRow(EmptyMap, RowA).map
  /\ algLog.a = <<DateRow(2021, 2, 29)>>
  /\ CountAt(algA, <<<<"A">>, <<"x">>>>, 84) = 1
  /\ \A t \in 0..131 : t # 84 => CountAt(algA, <<<<"A">>, <<"x">>>>, t) = 0

\* the record signals a failure and the fold does not reject it
FailureFolded(map, row) ==
  /\ ~ReadRow(map, row).threw
  /\ row.failure.v # 0

\* every drive but the one of the key has the list it had
OtherListsKept(key) ==
  \A k \in (DOMAIN algDc.a.failure_date \cup DOMAIN algDc'.a.failure_date) \ {key} :
    FailureList(algDc'.a, k) = FailureList(algDc.a, k)

-----------------------------------------------------------------------------
(* Claims about the lock, rejected rows and the two phases *)

\* the next step of the worker advances the directory iterator
Advancing(i) == pc[i] = "inc"

\* the next step of the worker finds a .csv entry and writes "Processing ..."
Logging(i) == pc[i] = "loop" /\ LoopCond(i) /\ IsCsv(dir[it])

\* the next step of the worker opens, reads and parses its file
ReadingFile(i) == pc[i] = "read"

\* a step writes a store only as the step of its worker reading a file,
\* moves the iterator only as the step of the holder of the lock, and
\* writes the result only when every worker has ended
CursorOnlyShared ==
  /\ \A j \in Workers :
       dc_stats'[j] # dc_stats[j] => (pc[j] = "read" /\ pc'[j] # pc[j])
  /\ \A j \in Workers :
       (csv_path'[j] # csv_path[j] \/ file_path'[j] # file_path[j])
         => pc'[j] # pc[j]
  /\ it' # it =>
       /\ it_mutex \in Workers
       /\ pc[it_mutex] = "inc" /\ pc'[it_mutex] # pc[it_mutex]
  /\ result' # result => \A j \in Workers : pc[j] = "done"

\* C27 as stated: whenever a worker is advancing the traversal, writing
\* the log line or reading a file, nobody holds the lock
C27_NoIoUnderLock ==
  /\ [](\A i \in Workers :
          (Advancing(i) \/ Logging(i) \/ ReadingFile(i)) => it_mutex = NoThread)
  /\ [][CursorOnlyShared]_vars

\* C27: a worker that is reading a file does not hold the lock, while
\* another worker may; a worker that is advancing the traversal or writing
\* the log line holds it; and while the workers run the iterator is the
\* only state that more than one thread touches
C27_FileIoOutsideLock ==
  /\ [](\A i \in Workers :
          /\ ReadingFile(i) => it_mutex # i
          /\ (Advancing(i) \/ Logging(i)) => it_mutex = i)
  /\ [][CursorOnlyShared]_vars

\* one worker is reading its file while the other holds the lock and is
\* advancing the traversal
C27_Witness ==
  \E i, j \in Workers :
    /\ i # j
    /\ ReadingFile(i)
    /\ Advancing(j)
    /\ it_mutex = j

\* the fold rejects the record: the iteration of the loop throws
Rejected(map, row) == ReadRow(map, row).threw

\* the drive has counted a day
HasCounted(map, key) == \E t \in 0..131 : CountAt(map, key, t) > 0

\* C28: a rejected row leaves the store as it was before the row (no model
\* and no drive created, no capacity changed, no counter incremented, no
\* failure date recorded), so every drive of a store has counted a day
C28_RejectedRowLeavesStore ==
  /\ [][(FoldStep /\ Rejected(algA, Folded)) => algA' = algA]_vars
  /\ [](\A key \in DriveKeys(algA) : HasCounted(algA, key))

\* the .csv entry was returned to a worker and its ingestion has ended
Ingested(p) ==
  /\ \E j \in DOMAIN returned : returned[j] = p
  /\ Len(outcome[p]) = 1

\* C29: when the reduction begins every .csv entry of the directory has
\* been claimed by a worker and its ingestion has ended, with or without an
\* error, for every number of workers, zero included
C29_AllIngestedBeforeReduction ==
  main_pc \in {"merge", "done"} =>
    \A p \in DOMAIN dir : IsCsv(dir[p]) => Ingested(p)

RECURSIVE LeadingValid(_, _)
\* the rows from row k on that are folded before the first row that raises
LeadingValid(rows, k) ==
  IF k > Len(rows) \/ ~Valid(rows[k]) THEN 0
  ELSE 1 + LeadingValid(rows, k + 1)

\* the rows that were folded without an error, over all files that were read
RowsFolded ==
  LET read == {p \in DOMAIN dir : outcome[p] # <<>> /\ dir[p].readable}
      rows == [p \in read |-> LeadingValid(dir[p].rows, 1)]
  IN SumOf(rows, read)

\* C30: at the end of the run the counters of the final store add up to
\* the number of rows that were folded without an error, over all files and
\* workers, whatever the interleaving of the workers
C30_DriveDaysConserved == Finished => DriveDays(result) = RowsFolded

=============================================================================
